---- MODULE Spec2Model ----
(***************************************************************************)
(* A model of src/texture.rs of the gltf crate: the Sampler, Texture and   *)
(* Info views over the document root (Gltf), the lazily initialised        *)
(* DEFAULT_SAMPLER static, and the callers that construct views and call   *)
(* their accessors.                                                        *)
(*                                                                         *)
(* References (&'a json::...) are modelled as addresses into the document  *)
(* root or the static, never as copies: a view holds a Ref and every       *)
(* accessor loads through it.  Positions are 0-based as in the source;     *)
(* TLA+ sequences are 1-based, so position k is element k + 1.             *)
(***************************************************************************)
EXTENDS Naturals, Sequences, FiniteSets, TLC

VARIABLES
    gltf,      \* the document root: its textures, samplers, images, infos
    lazy,      \* the DEFAULT_SAMPLER static: Once state and stored value
    observed,  \* history: the instances handed out by DEFAULT_SAMPLER derefs
    pc,        \* per caller: position in the call it is executing
    view,      \* per caller: the view it currently holds
    last       \* per caller: the last call (operation, receiver, outcome)

vars == <<gltf, lazy, observed, pc, view, last>>

----------------------------------------------------------------------------
(* Bounds of the model.                                                    *)

MaxSamplers == 1
MaxImages == 1
MaxTexCoord == 2
NumThreads == 2

Threads == 1..NumThreads

----------------------------------------------------------------------------
(* Option<T>, Checked<T> and the closed enumerations.                      *)

None == [tag |-> "None"]
Some(x) == [tag |-> "Some", v |-> x]

Valid(x) == [tag |-> "Valid", v |-> x]
Invalid == [tag |-> "Invalid"]

MagFilter == {"Nearest", "Linear"}
MinFilter == {"Nearest", "Linear", "NearestMipmapNearest", "LinearMipmapNearest",
              "NearestMipmapLinear", "LinearMipmapLinear"}
WrappingMode == {"ClampToEdge", "MirroredRepeat", "Repeat"}

\* Outcomes of a call: a value or view, an absent Option, or a panic.
Value(x) == [kind |-> "value", v |-> x]
Absent == [kind |-> "absent"]
Panic == [kind |-> "panic"]
Pending == [kind |-> "pending"]

\* Checked<T>::unwrap: the value of Valid, a panic on Invalid.
CheckedUnwrap(c) == IF c.tag = "Valid" THEN Value(c.v) ELSE Panic

\* Iterator::nth(k) on a sequence standing for the iterator's items.
Nth(items, k) == IF k < Len(items) THEN Some(items[k + 1]) ELSE None

----------------------------------------------------------------------------
(* References and the raw records they address.                            *)

Ref(coll, pos) == [coll |-> coll, pos |-> pos]
FieldRef(r, field) == [coll |-> r.coll, pos |-> r.pos, field |-> field]
StaticRef == [coll |-> "DEFAULT_SAMPLER", pos |-> 0]

\* json::texture::Sampler's Default: no filters, the default wrapping mode.
DefaultWrappingMode == "Repeat"
DefaultSamplerRecord ==
    [mag_filter |-> None, min_filter |-> None,
     wrap_s |-> Valid(DefaultWrappingMode), wrap_t |-> Valid(DefaultWrappingMode),
     extensions |-> "none", extras |-> "null"]

Uninit == [inst |-> 0, rec |-> [tag |-> "Uninit"]]

Load(r) ==
    IF r.coll = "DEFAULT_SAMPLER" THEN lazy.value.rec
    ELSE gltf[r.coll][r.pos + 1]

LoadField(fr) == Load(Ref(fr.coll, fr.pos))[fr.field]

----------------------------------------------------------------------------
(* Views.  The back-reference to the parent Gltf is the single document    *)
(* root of the model (the variable gltf), so a view does not repeat it.    *)

NoView == [kind |-> "None"]

\* Sampler::new
SamplerNew(index, json) == [kind |-> "Sampler", index |-> Some(index), json |-> json]

\* A default view that claims a position in the document.
SamplerDefaultIndexed == [kind |-> "Sampler", index |-> Some(0), json |-> StaticRef]

\* Sampler::default, once the deref of DEFAULT_SAMPLER has returned
SamplerDefault == [kind |-> "Sampler", index |-> None, json |-> StaticRef]

\* Texture::new
TextureNew(index, json) == [kind |-> "Texture", index |-> index, json |-> json]

\* image::Image::new
ImageNew(index, json) == [kind |-> "Image", index |-> index, json |-> json]

\* An Info that keeps the record of the texture and loses its position.
InfoNewResetIndex(texture, json) ==
    [kind |-> "Info", texture |-> [texture EXCEPT !.index = 0], json |-> json]

\* Info::new
InfoNew(texture, json) == [kind |-> "Info", texture |-> texture, json |-> json]

\* The wrappers of the extensions module: a view-specific pair of references.
ExtSamplerNew(json) == [kind |-> "extensions::Sampler", json |-> json]
ExtTextureNew(json) == [kind |-> "extensions::Texture", json |-> json]
ExtInfoNew(texture, json) ==
    [kind |-> "extensions::Info", texture |-> texture, json |-> json]

\* Gltf::samplers() and Gltf::images(): one view per record, in order, each
\* carrying its position.
GltfSamplers == [i \in 1..Len(gltf.samplers) |-> SamplerNew(i - 1, Ref("samplers", i - 1))]
GltfImages == [i \in 1..Len(gltf.images) |-> ImageNew(i - 1, Ref("images", i - 1))]
GltfTextures == [i \in 1..Len(gltf.textures) |-> TextureNew(i - 1, Ref("textures", i - 1))]

----------------------------------------------------------------------------
(* impl Sampler                                                            *)

SamplerIndex(s) == IF s.index.tag = "Some" THEN Value(s.index.v) ELSE Absent

SamplerAsJson(s) == Value(s.json)

SamplerMagFilter(s) ==
    LET f == Load(s.json).mag_filter
    IN  IF f.tag = "Some" THEN CheckedUnwrap(f.v) ELSE Absent

SamplerMinFilter(s) ==
    LET f == Load(s.json).min_filter
    IN  IF f.tag = "Some" THEN CheckedUnwrap(f.v) ELSE Absent

SamplerWrapS(s) == CheckedUnwrap(Load(s.json).wrap_s)

SamplerWrapT(s) == CheckedUnwrap(Load(s.json).wrap_t)

SamplerExtensions(s) == Value(ExtSamplerNew(FieldRef(s.json, "extensions")))

SamplerExtras(s) == Value(FieldRef(s.json, "extras"))

----------------------------------------------------------------------------
(* impl Texture                                                            *)

TextureIndex(t) == Value(t.index)

TextureAsJson(t) == Value(t.json)

\* A lookup that skips the first sampler.
TextureSamplerLookupOffByOne(t) ==
    LET index == Load(t.json).sampler
    IN  IF index.tag = "Some"
        THEN LET found == Nth(GltfSamplers, index.v + 1)
             IN  IF found.tag = "Some" THEN Value(found.v) ELSE Panic
        ELSE Absent

\* A lookup that flattens (and_then) instead of unwrapping: a reference that
\* does not resolve is taken for an absent one.
TextureSamplerLookupFlatten(t) ==
    LET index == Load(t.json).sampler
    IN  IF index.tag = "Some"
        THEN LET found == Nth(GltfSamplers, index.v)
             IN  IF found.tag = "Some" THEN Value(found.v) ELSE Absent
        ELSE Absent

\* self.json.sampler.as_ref().map(|index| self.gltf.samplers().nth(..).unwrap()):
\* absent when the reference is absent, the view when it resolves, and a
\* panic inside the closure when it is present and does not resolve.
TextureSamplerLookup(t) ==
    LET index == Load(t.json).sampler
    IN  IF index.tag = "Some"
        THEN LET found == Nth(GltfSamplers, index.v)
             IN  IF found.tag = "Some" THEN Value(found.v) ELSE Panic
        ELSE Absent

\* A source() that looks the image up at the texture's own position.
TextureSourceByTextureIndex(t) ==
    LET found == Nth(GltfImages, t.index)
    IN  IF found.tag = "Some" THEN Value(found.v) ELSE Panic

\* A source() that returns the Option of the lookup instead of unwrapping it.
TextureSourceOption(t) ==
    LET found == Nth(GltfImages, Load(t.json).source)
    IN  IF found.tag = "Some" THEN Value(found.v) ELSE Absent

TextureSource(t) ==
    LET found == Nth(GltfImages, Load(t.json).source)
    IN  IF found.tag = "Some" THEN Value(found.v) ELSE Panic

TextureExtensions(t) == Value(ExtTextureNew(FieldRef(t.json, "extensions")))

TextureExtras(t) == Value(FieldRef(t.json, "extras"))

----------------------------------------------------------------------------
(* impl Info, impl Deref for Info                                          *)

InfoAsJson(i) == Value(i.json)

\* A tex_coord() that gives the schema default.
InfoTexCoordDefault(i) == Value(0)

InfoTexCoord(i) == Value(Load(i.json).tex_coord)

InfoExtensions(i) == Value(ExtInfoNew(i.texture, FieldRef(i.json, "extensions")))

\* An extras() that forwards to the wrapped Texture.
InfoExtrasOfTexture(i) == Value(FieldRef(i.texture.json, "extras"))

InfoExtras(i) == Value(FieldRef(i.json, "extras"))

InfoDeref(i) == i.texture

\* Method resolution on a receiver: an Info reaches the methods it does not
\* define itself through Deref; a Texture is its own receiver.
AutoDeref(v) == IF v.kind = "Info" THEN InfoDeref(v) ELSE v

----------------------------------------------------------------------------
(* The documents the callers work on.                                      *)

SeqsUpTo(S, n) == UNION {[1..k -> S] : k \in 0..n}

\* Raw sampler records: the sampler of the format's example, a second valid
\* one, a record equal in value to the default, and two records holding an
\* enumeration value that did not validate.
ExampleSampler ==
    [mag_filter |-> Some(Valid("Nearest")), min_filter |-> Some(Valid("Linear")),
     wrap_s |-> Valid("Repeat"), wrap_t |-> Valid("ClampToEdge"),
     extensions |-> "none", extras |-> "null"]

SamplerRecords ==
    {ExampleSampler,
     [mag_filter |-> Some(Valid("Linear")), min_filter |-> Some(Valid("NearestMipmapLinear")),
      wrap_s |-> Valid("MirroredRepeat"), wrap_t |-> Valid("MirroredRepeat"),
      extensions |-> "sampler-ext", extras |-> "sampler-extras"],
     [mag_filter |-> None, min_filter |-> None,
      wrap_s |-> Valid("Repeat"), wrap_t |-> Valid("Repeat"),
      extensions |-> "none", extras |-> "null"],
     [mag_filter |-> Some(Invalid), min_filter |-> None,
      wrap_s |-> Invalid, wrap_t |-> Valid("Repeat"),
      extensions |-> "none", extras |-> "null"],
     [mag_filter |-> Some(Valid("Nearest")), min_filter |-> Some(Invalid),
      wrap_s |-> Valid("Repeat"), wrap_t |-> Invalid,
      extensions |-> "sampler-ext", extras |-> "null"]}

ImageRecords == {[uri |-> "image.png"]}

\* The textures of a document: one texture for every combination of sampler
\* reference (absent, or a position up to one past the longest samplers
\* collection) and source reference (a position up to one past the longest
\* images collection), in a fixed order; the extras alternate.
TextureCount == (MaxSamplers + 2) * (MaxImages + 1)

TextureAt(n) ==
    [sampler |-> IF n % (MaxSamplers + 2) = 0 THEN None
                 ELSE Some((n % (MaxSamplers + 2)) - 1),
     source |-> n \div (MaxSamplers + 2),
     extensions |-> "texture-ext",
     extras |-> IF n % 2 = 0 THEN "null" ELSE "texture-extras"]

AllTextures == [i \in 1..TextureCount |-> TextureAt(i - 1)]

\* The usage records of a document: one for every tex_coord and extras.
InfoCount == (MaxTexCoord + 1) * 2

InfoAt(n) ==
    [tex_coord |-> n % (MaxTexCoord + 1),
     extensions |-> IF n \div (MaxTexCoord + 1) = 0 THEN "none" ELSE "info-ext",
     extras |-> IF n \div (MaxTexCoord + 1) = 0 THEN "null" ELSE "info-extras"]

AllInfos == [i \in 1..InfoCount |-> InfoAt(i - 1)]

Documents ==
    {[textures |-> AllTextures, samplers |-> ss, images |-> is, infos |-> AllInfos] :
        ss \in SeqsUpTo(SamplerRecords, MaxSamplers),
        is \in SeqsUpTo(ImageRecords, MaxImages)}

\* The document of the concurrent callers: one texture without a sampler
\* reference, one sampler, one image, one usage record.
ConcDocuments ==
    {[textures |-> <<TextureAt(0)>>, samplers |-> <<ExampleSampler>>,
      images |-> <<[uri |-> "image.png"]>>, infos |-> <<InfoAt(MaxTexCoord)>>]}

----------------------------------------------------------------------------
(* State.                                                                  *)

NoCall == [op |-> "none", recv |-> NoView, out |-> Pending]

LazyInit == [state |-> "INCOMPLETE", value |-> Uninit, inits |-> 0]

Init ==
    /\ gltf \in Documents
    /\ lazy = LazyInit
    /\ observed = {}
    /\ pc = [t \in Threads |-> IF t = 1 THEN "ready" ELSE "off"]
    /\ view = [t \in Threads |-> NoView]
    /\ last = [t \in Threads |-> NoCall]

InitConc ==
    /\ gltf \in ConcDocuments
    /\ lazy = LazyInit
    /\ observed = {}
    /\ pc = [t \in Threads |-> "ready"]
    /\ view = [t \in Threads |-> NoView]
    /\ last = [t \in Threads |-> NoCall]

----------------------------------------------------------------------------
(* Callers.  A caller is "ready" between calls, "deref" while it waits on  *)
(* the deref of DEFAULT_SAMPLER inside Sampler::default, "init" while it   *)
(* runs the static's initializer, and "panicked" once a call has panicked. *)

Holds(t, kinds) == pc[t] = "ready" /\ view[t].kind \in kinds

\* The call returns: the outcome is recorded, a panic ends the caller, and a
\* returned view becomes the view the caller goes on with.
Return(t, op, recv, out, adopt) ==
    /\ last' = [last EXCEPT ![t] = [op |-> op, recv |-> recv, out |-> out]]
    /\ pc' = [pc EXCEPT ![t] = IF out.kind = "panic" THEN "panicked" ELSE "ready"]
    /\ view' = [view EXCEPT ![t] = IF adopt /\ out.kind = "value" THEN out.v ELSE @]

Call(t, op, out) ==
    /\ Return(t, op, view[t], out, FALSE)
    /\ UNCHANGED <<gltf, lazy, observed>>

CallForView(t, op, out) ==
    /\ Return(t, op, view[t], out, TRUE)
    /\ UNCHANGED <<gltf, lazy, observed>>

\* The caller enters Sampler::default: the next thing it does is the deref
\* of DEFAULT_SAMPLER.
EnterDefault(t, op, recv) ==
    /\ last' = [last EXCEPT ![t] = [op |-> op, recv |-> recv, out |-> Pending]]
    /\ pc' = [pc EXCEPT ![t] = "deref"]
    /\ UNCHANGED <<gltf, lazy, observed, view>>

\* A check-then-act initialisation: a caller that finds the initializer
\* running runs it too.
LazyMustInitRacy == lazy.state # "COMPLETE"

\* lazy_static!: the initializer runs under a Once; only the caller that
\* finds it INCOMPLETE runs it, a caller that finds it RUNNING waits.
LazyMustInit == lazy.state = "INCOMPLETE"

LazyBegin(t) ==
    /\ pc[t] = "deref"
    /\ LazyMustInit
    /\ lazy' = [lazy EXCEPT !.state = "RUNNING", !.inits = @ + 1]
    /\ pc' = [pc EXCEPT ![t] = "init"]
    /\ UNCHANGED <<gltf, observed, view, last>>

\* The initializer: Default::default(), stored before the Once completes.
LazyFinish(t) ==
    /\ pc[t] = "init"
    /\ lazy' = [lazy EXCEPT !.state = "COMPLETE",
                            !.value = [inst |-> t, rec |-> DefaultSamplerRecord]]
    /\ pc' = [pc EXCEPT ![t] = "deref"]
    /\ UNCHANGED <<gltf, observed, view, last>>

\* A deref that stores a fresh default record on every call.
LazyGetFresh(t) ==
    /\ pc[t] = "deref"
    /\ lazy.state = "COMPLETE"
    /\ lazy' = [lazy EXCEPT !.value = [inst |-> t, rec |-> DefaultSamplerRecord]]
    /\ observed' = observed \cup {lazy'.value}
    /\ Return(t, last[t].op, last[t].recv, Value(SamplerDefault), TRUE)
    /\ UNCHANGED gltf

\* The deref returns the stored instance and Sampler::default its view.
LazyGet(t) ==
    /\ pc[t] = "deref"
    /\ lazy.state = "COMPLETE"
    /\ observed' = observed \cup {lazy.value}
    /\ Return(t, last[t].op, last[t].recv, Value(SamplerDefault), TRUE)
    /\ UNCHANGED <<gltf, lazy>>

\* Gltf::textures().nth(i): the caller takes the view of texture i.
GltfTexturesAct(t, i) ==
    /\ Holds(t, {"None"})
    /\ Return(t, "Texture::new", NoView, Value(GltfTextures[i + 1]), TRUE)
    /\ UNCHANGED <<gltf, lazy, observed>>

\* The caller lets go of the view it holds.
DropAct(t) ==
    /\ pc[t] = "ready"
    /\ view[t] # NoView
    /\ view' = [view EXCEPT ![t] = NoView]
    /\ UNCHANGED <<gltf, lazy, observed, pc, last>>

SamplerDefaultAct(t) ==
    /\ Holds(t, {"None"})
    /\ EnterDefault(t, "Sampler::default", NoView)

SamplerIndexAct(t) ==
    Holds(t, {"Sampler"}) /\ Call(t, "index", SamplerIndex(view[t]))

SamplerAsJsonAct(t) ==
    Holds(t, {"Sampler"}) /\ Call(t, "as_json", SamplerAsJson(view[t]))

SamplerMagFilterAct(t) ==
    Holds(t, {"Sampler"}) /\ Call(t, "mag_filter", SamplerMagFilter(view[t]))

SamplerMinFilterAct(t) ==
    Holds(t, {"Sampler"}) /\ Call(t, "min_filter", SamplerMinFilter(view[t]))

SamplerWrapSAct(t) ==
    Holds(t, {"Sampler"}) /\ Call(t, "wrap_s", SamplerWrapS(view[t]))

SamplerWrapTAct(t) ==
    Holds(t, {"Sampler"}) /\ Call(t, "wrap_t", SamplerWrapT(view[t]))

SamplerExtensionsAct(t) ==
    Holds(t, {"Sampler"}) /\ Call(t, "extensions", SamplerExtensions(view[t]))

SamplerExtrasAct(t) ==
    Holds(t, {"Sampler"}) /\ Call(t, "extras", SamplerExtras(view[t]))

\* The methods of Texture, called on a Texture or, through Deref, on an Info.
TextureIndexAct(t) ==
    Holds(t, {"Texture", "Info"}) /\ Call(t, "index", TextureIndex(AutoDeref(view[t])))

TextureAsJsonAct(t) ==
    Holds(t, {"Texture"}) /\ Call(t, "as_json", TextureAsJson(view[t]))

\* Texture::sampler: the looked-up view, or Sampler::default when the lookup
\* gave None (unwrap_or_else).
TextureSamplerAct(t) ==
    /\ Holds(t, {"Texture", "Info"})
    /\ LET found == TextureSamplerLookup(AutoDeref(view[t]))
       IN  IF found.kind = "absent"
           THEN EnterDefault(t, "sampler", view[t])
           ELSE CallForView(t, "sampler", found)

TextureSourceAct(t) ==
    Holds(t, {"Texture", "Info"}) /\ CallForView(t, "source", TextureSource(AutoDeref(view[t])))

\* Info defines extensions and extras itself, so on an Info these two names
\* resolve to Info's methods, and to Texture's only on a Texture.
TextureExtensionsAct(t) ==
    Holds(t, {"Texture"}) /\ Call(t, "extensions", TextureExtensions(view[t]))

TextureExtrasAct(t) ==
    Holds(t, {"Texture"}) /\ Call(t, "extras", TextureExtras(view[t]))

\* Info::new(texture, json): the caller wraps the Texture view it holds.
InfoNewAct(t, j) ==
    /\ Holds(t, {"Texture"})
    /\ CallForView(t, "Info::new", Value(InfoNew(view[t], Ref("infos", j))))

InfoAsJsonAct(t) ==
    Holds(t, {"Info"}) /\ Call(t, "as_json", InfoAsJson(view[t]))

InfoTexCoordAct(t) ==
    Holds(t, {"Info"}) /\ Call(t, "tex_coord", InfoTexCoord(view[t]))

InfoExtensionsAct(t) ==
    Holds(t, {"Info"}) /\ Call(t, "extensions", InfoExtensions(view[t]))

InfoExtrasAct(t) ==
    Holds(t, {"Info"}) /\ Call(t, "extras", InfoExtras(view[t]))

\* The caller dereferences the Info explicitly and goes on with the Texture.
InfoDerefAct(t) ==
    Holds(t, {"Info"}) /\ CallForView(t, "deref", Value(InfoDeref(view[t])))

Next ==
    \E t \in Threads :
        \/ \E i \in 0..(Len(gltf.textures) - 1) : GltfTexturesAct(t, i)
        \/ \E j \in 0..(Len(gltf.infos) - 1) : InfoNewAct(t, j)
        \/ DropAct(t)
        \/ SamplerDefaultAct(t)
        \/ LazyBegin(t)
        \/ LazyFinish(t)
        \/ LazyGet(t)
        \/ SamplerIndexAct(t)
        \/ SamplerAsJsonAct(t)
        \/ SamplerMagFilterAct(t)
        \/ SamplerMinFilterAct(t)
        \/ SamplerWrapSAct(t)
        \/ SamplerWrapTAct(t)
        \/ SamplerExtensionsAct(t)
        \/ SamplerExtrasAct(t)
        \/ TextureIndexAct(t)
        \/ TextureAsJsonAct(t)
        \/ TextureSamplerAct(t)
        \/ TextureSourceAct(t)
        \/ TextureExtensionsAct(t)
        \/ TextureExtrasAct(t)
        \/ InfoAsJsonAct(t)
        \/ InfoTexCoordAct(t)
        \/ InfoExtensionsAct(t)
        \/ InfoExtrasAct(t)
        \/ InfoDerefAct(t)

\* One caller, every document.
Spec == Init /\ [][Next]_vars

\* Concurrent callers on one document.
ConcSpec == InitConc /\ [][Next]_vars

----------------------------------------------------------------------------
(* Vocabulary of the properties.                                           *)

\* Caller t has made a call and the call has ended.
Done(t) == last[t].op # "none" /\ last[t].out.kind # "pending"

\* The call of t was op on a receiver of one of the kinds.
Called(t, op, kinds) == Done(t) /\ last[t].op = op /\ last[t].recv.kind \in kinds

\* The raw texture record behind a Texture or Info receiver.
RawTexture(v) == gltf.textures[(IF v.kind = "Info" THEN v.texture ELSE v).json.pos + 1]

\* The call of t was sampler(), started or ended.
SamplerCalled(t) == last[t].op = "sampler"

SamplerRefAbsent(t) == SamplerCalled(t) /\ RawTexture(last[t].recv).sampler = None

SamplerRefResolves(t) ==
    /\ SamplerCalled(t)
    /\ RawTexture(last[t].recv).sampler # None
    /\ RawTexture(last[t].recv).sampler.v < Len(gltf.samplers)

SamplerRefDangles(t) ==
    /\ SamplerCalled(t)
    /\ RawTexture(last[t].recv).sampler # None
    /\ RawTexture(last[t].recv).sampler.v >= Len(gltf.samplers)

SamplerRefDanglesOn(v) ==
    /\ RawTexture(v).sampler # None
    /\ RawTexture(v).sampler.v >= Len(gltf.samplers)

SourceRefDangles(t) ==
    /\ last[t].op = "source"
    /\ RawTexture(last[t].recv).source >= Len(gltf.images)

\* The call of t was an accessor on the default Sampler view.
OnDefaultSampler(t) ==
    Done(t) /\ last[t].recv.kind = "Sampler" /\ last[t].recv.index = None

\* The call of t was an accessor on the Sampler view of samplers[i].
OnDocumentSampler(t) ==
    Done(t) /\ last[t].recv.kind = "Sampler" /\ last[t].recv.index # None

RawSampler(t) == gltf.samplers[last[t].recv.index.v + 1]

\* What an accessor gives for a raw optional enumeration that validated.
OfOptional(f) == IF f = None THEN Absent ELSE Value(f.v.v)
ValidOptional(f) == f = None \/ f.v.tag = "Valid"

----------------------------------------------------------------------------
(* C1: sampler() on a texture whose sampler reference is absent returns    *)
(* the default view: its index() is None, its filters are absent and both  *)
(* wrapping modes are the default mode, whatever the samplers collection   *)
(* of the document holds.                                                  *)

C1_AbsentReferenceGivesDefault ==
    \A t \in Threads :
        /\ (SamplerRefAbsent(t) /\ Done(t)) =>
              /\ last[t].out.kind = "value"
              /\ SamplerIndex(last[t].out.v) = Absent
              /\ SamplerMagFilter(last[t].out.v) = Absent
              /\ SamplerMinFilter(last[t].out.v) = Absent
              /\ SamplerWrapS(last[t].out.v) = Value(DefaultWrappingMode)
              /\ SamplerWrapT(last[t].out.v) = Value(DefaultWrappingMode)
        /\ OnDefaultSampler(t) =>
              /\ last[t].op \in {"index", "mag_filter", "min_filter"} => last[t].out = Absent
              /\ last[t].op \in {"wrap_s", "wrap_t"} => last[t].out = Value(DefaultWrappingMode)

C1_Witness ==
    \E t \in Threads :
        /\ SamplerRefAbsent(t) /\ Done(t)
        /\ last[t].out.kind = "value"
        /\ Len(gltf.samplers) > 0
        /\ gltf.samplers[1].wrap_s # Valid(DefaultWrappingMode)

(* C2: sampler() on a texture whose sampler reference is i, in range,      *)
(* returns the view of samplers[i]: index() is Some(i), and every accessor *)
(* gives the raw record's own field (for an enumeration, the value the raw *)
(* field holds), with nothing substituted.                                 *)

C2_PresentReferenceGivesRecord ==
    \A t \in Threads :
        /\ (SamplerRefResolves(t) /\ Done(t)) =>
              /\ last[t].out.kind = "value"
              /\ last[t].out.v.index = RawTexture(last[t].recv).sampler
              /\ last[t].out.v.json = Ref("samplers", RawTexture(last[t].recv).sampler.v)
        /\ OnDocumentSampler(t) =>
              /\ last[t].op = "index" => last[t].out = Value(last[t].recv.json.pos)
              /\ (last[t].op = "mag_filter" /\ ValidOptional(RawSampler(t).mag_filter)) =>
                    last[t].out = OfOptional(RawSampler(t).mag_filter)
              /\ (last[t].op = "min_filter" /\ ValidOptional(RawSampler(t).min_filter)) =>
                    last[t].out = OfOptional(RawSampler(t).min_filter)
              /\ (last[t].op = "wrap_s" /\ RawSampler(t).wrap_s.tag = "Valid") =>
                    last[t].out = Value(RawSampler(t).wrap_s.v)
              /\ (last[t].op = "wrap_t" /\ RawSampler(t).wrap_t.tag = "Valid") =>
                    last[t].out = Value(RawSampler(t).wrap_t.v)
              /\ last[t].op = "extras" =>
                    /\ last[t].out.kind = "value"
                    /\ LoadField(last[t].out.v) = RawSampler(t).extras

C2_Witness ==
    \E t \in Threads :
        /\ OnDocumentSampler(t)
        /\ last[t].op = "mag_filter"
        /\ last[t].recv.index = Some(0)
        /\ last[t].out = Value("Nearest")
        /\ RawSampler(t).wrap_t = Valid("ClampToEdge")

(* C3: source() on a texture whose source reference resolves returns the   *)
(* image view at that position, its index equal to the raw reference; and  *)
(* source() never goes through a default: it never enters Sampler::default *)
(* or any other substitution, whether the sampler reference is absent,     *)
(* resolving or dangling.                                                  *)

C3_SourceIsTheReferencedImage ==
    \A t \in Threads :
        last[t].op = "source" =>
            /\ pc[t] \notin {"deref", "init"}
            /\ last[t].out.kind \in {"value", "panic"}
            /\ last[t].out.kind = "value" =>
                  /\ last[t].out.v.kind = "Image"
                  /\ last[t].out.v.index = RawTexture(last[t].recv).source
                  /\ last[t].out.v.json = Ref("images", RawTexture(last[t].recv).source)
            /\ ~SourceRefDangles(t) => last[t].out.kind = "value"

C3_Witness ==
    \E t \in Threads :
        /\ last[t].op = "source"
        /\ last[t].out.kind = "value"
        /\ SamplerRefDanglesOn(last[t].recv)
        /\ last[t].recv.kind = "Texture"
        /\ last[t].recv.index > 0

(* C4: the operations an Info delegates give what the wrapped Texture view  *)
(* gives.  Info::new keeps the Texture view it was given; index(),         *)
(* sampler() and source() called on the Info are the Texture's; and the    *)
(* explicit deref, through which the Texture's own extensions() and        *)
(* extras() are reached, hands out that same Texture view.                 *)

C4_InfoDelegatesToTexture ==
    \A t \in Threads :
        /\ Called(t, "Info::new", {"Texture"}) =>
              last[t].out.kind = "value" /\ last[t].out.v.texture = last[t].recv
        /\ Called(t, "index", {"Info"}) =>
              last[t].out = TextureIndex(last[t].recv.texture)
        /\ Called(t, "source", {"Info"}) =>
              last[t].out = TextureSource(last[t].recv.texture)
        /\ Called(t, "sampler", {"Info"}) =>
              last[t].out = IF TextureSamplerLookup(last[t].recv.texture).kind = "absent"
                            THEN Value(SamplerDefault)
                            ELSE TextureSamplerLookup(last[t].recv.texture)
        /\ Called(t, "deref", {"Info"}) =>
              /\ last[t].out = Value(last[t].recv.texture)
              /\ TextureExtras(last[t].out.v) =
                    Value(FieldRef(last[t].recv.texture.json, "extras"))
              /\ TextureExtensions(last[t].out.v) =
                    Value(ExtTextureNew(FieldRef(last[t].recv.texture.json, "extensions")))

C4_Witness ==
    \E t \in Threads :
        /\ Called(t, "source", {"Info"})
        /\ last[t].out.kind = "value"
        /\ last[t].recv.texture.index > 0

(* C6: on an Info, extras() is a reference to the usage record's extras    *)
(* and extensions() wraps the usage record's extension payload; neither is *)
(* ever the wrapped Texture's, also when the two payloads differ.          *)

C6_InfoOwnExtrasAndExtensions ==
    \A t \in Threads :
        /\ Called(t, "extras", {"Info"}) =>
              /\ last[t].out = Value(FieldRef(last[t].recv.json, "extras"))
              /\ LoadField(last[t].out.v) = gltf.infos[last[t].recv.json.pos + 1].extras
              /\ last[t].out.v # FieldRef(last[t].recv.texture.json, "extras")
        /\ Called(t, "extensions", {"Info"}) =>
              /\ last[t].out.kind = "value"
              /\ last[t].out.v.json = FieldRef(last[t].recv.json, "extensions")
              /\ LoadField(last[t].out.v.json) = gltf.infos[last[t].recv.json.pos + 1].extensions
              /\ last[t].out.v.json # FieldRef(last[t].recv.texture.json, "extensions")

C6_Witness ==
    \E t \in Threads :
        /\ Called(t, "extras", {"Info"})
        /\ LoadField(last[t].out.v) # RawTexture(last[t].recv).extras
        /\ RawTexture(last[t].recv).extras # "null"

(* C7: tex_coord() on an Info gives the usage record's stored tex_coord,   *)
(* unchanged: 2 for a record holding 2, 0 only for a record holding 0,     *)
(* whichever Texture the Info wraps.                                       *)

C7_TexCoordIsTheStoredValue ==
    \A t \in Threads :
        Called(t, "tex_coord", {"Info"}) =>
            last[t].out = Value(gltf.infos[last[t].recv.json.pos + 1].tex_coord)

C7_Witness ==
    \E t \in Threads :
        /\ Called(t, "tex_coord", {"Info"})
        /\ last[t].out = Value(2)
        /\ last[t].recv.texture.index > 0

(* C8 as stated: a dangling reference (the source reference, or a present  *)
(* sampler reference) gives the caller an error outcome and does not end   *)
(* it.                                                                     *)

C8_DanglingReferenceIsReported ==
    \A t \in Threads :
        ((SourceRefDangles(t) \/ SamplerRefDangles(t)) /\ Done(t)) =>
            pc[t] # "panicked" /\ last[t].out.kind = "error"

(* C8 as amended: a dangling reference (the source reference in source(),  *)
(* a present sampler reference in sampler()) makes the call panic: no view *)
(* and no error value is returned, and the caller is ended.                *)

C8_DanglingReferencePanics ==
    \A t \in Threads :
        (SourceRefDangles(t) \/ SamplerRefDangles(t)) =>
            last[t].out = Panic /\ pc[t] = "panicked"

C8_Witness ==
    \E t \in Threads :
        /\ SourceRefDangles(t)
        /\ last[t].out = Panic
        /\ Len(gltf.images) > 0

(* C10: a call ends in a value, an absent result or a panic.  An absent    *)
(* result comes only from absent optional data (the index of the default   *)
(* view, a filter the raw record does not set); a panic only from a broken *)
(* invariant (a dangling reference, an enumeration that did not validate). *)
(* A sampler reference that is present and dangling makes sampler() panic: *)
(* the call never enters Sampler::default.                                 *)

C10_OutcomeKinds ==
    \A t \in Threads :
        /\ Done(t) => last[t].out.kind \in {"value", "absent", "panic"}
        /\ (pc[t] = "panicked") <=> (Done(t) /\ last[t].out = Panic)
        /\ (Done(t) /\ last[t].out = Absent) =>
              \/ OnDefaultSampler(t) /\ last[t].op \in {"index", "mag_filter", "min_filter"}
              \/ OnDocumentSampler(t) /\ last[t].op = "mag_filter"
                    /\ RawSampler(t).mag_filter = None
              \/ OnDocumentSampler(t) /\ last[t].op = "min_filter"
                    /\ RawSampler(t).min_filter = None
        /\ (Done(t) /\ last[t].out = Panic) =>
              \/ SamplerRefDangles(t)
              \/ SourceRefDangles(t)
              \/ OnDocumentSampler(t) /\ last[t].op = "mag_filter"
                    /\ RawSampler(t).mag_filter = Some(Invalid)
              \/ OnDocumentSampler(t) /\ last[t].op = "min_filter"
                    /\ RawSampler(t).min_filter = Some(Invalid)
              \/ OnDocumentSampler(t) /\ last[t].op = "wrap_s" /\ RawSampler(t).wrap_s = Invalid
              \/ OnDocumentSampler(t) /\ last[t].op = "wrap_t" /\ RawSampler(t).wrap_t = Invalid
        /\ SamplerRefDangles(t) =>
              /\ pc[t] \notin {"deref", "init"}
              /\ last[t].out.kind \notin {"value", "absent", "pending"}

C10_Witness ==
    \E t \in Threads :
        /\ SamplerRefDangles(t)
        /\ last[t].out = Panic
        /\ Len(gltf.samplers) > 0

----------------------------------------------------------------------------
(* Properties of the concurrent callers.                                   *)

\* Caller t holds or has been handed the default Sampler view.
HasDefault(t) ==
    \/ view[t] = SamplerDefault
    \/ Done(t) /\ last[t].op \in {"sampler", "Sampler::default"}
          /\ last[t].out = Value(SamplerDefault)

(* C5: the default sampler record is initialised at most once.  Whatever   *)
(* the interleaving of first accesses (Sampler::default, or sampler() on a *)
(* texture without a sampler reference), the initializer runs at most      *)
(* once, every deref hands out the one stored instance, complete, and no   *)
(* caller holds the default view before the instance is complete.          *)

C5_DefaultInitialisedOnce ==
    /\ lazy.inits <= 1
    /\ Cardinality(observed) <= 1
    /\ \A o \in observed : o.rec = DefaultSamplerRecord /\ o = lazy.value
    /\ lazy.state # "COMPLETE" => lazy.value = Uninit /\ observed = {}
    /\ lazy.state = "COMPLETE" => lazy.value.rec = DefaultSamplerRecord
    /\ \A t \in Threads : HasDefault(t) => lazy.state = "COMPLETE"
    /\ Cardinality({t \in Threads : pc[t] = "init"}) <= 1

C5_Witness ==
    \E t, u \in Threads :
        /\ t # u
        /\ Done(t) /\ last[t].op = "sampler" /\ last[t].out = Value(SamplerDefault)
        /\ Done(u) /\ last[u].op = "Sampler::default" /\ last[u].out = Value(SamplerDefault)
        /\ lazy.value.inst = u

(* C9: no call changes shared state.  Across every step of every caller    *)
(* the document root is unchanged and the default sampler record, once     *)
(* stored, is unchanged; and a call that ends gives the outcome that the   *)
(* same call on the same view gave before, to this caller or another.      *)

SameCall(a, b) ==
    /\ a.op = b.op
    /\ a.recv.kind = b.recv.kind
    /\ a.recv = b.recv

C9_NoSharedStateChanges ==
    [][/\ gltf' = gltf
       /\ lazy.state = "COMPLETE" => lazy' = lazy
       /\ \A t \in Threads :
             (last'[t] # last[t] /\ last'[t].out.kind # "pending") =>
                 \A u \in Threads :
                     (Done(u) /\ SameCall(last[u], last'[t])) => last[u].out = last'[t].out
      ]_vars

C9_Witness ==
    \E t, u \in Threads :
        /\ t # u
        /\ Done(t) /\ Done(u)
        /\ last[t].op = "wrap_s" /\ last[u].op = "wrap_s"
        /\ last[t].recv = SamplerDefault /\ last[u].recv = SamplerDefault
        /\ lazy.state = "COMPLETE"

====
